---- MODULE Spec2Model ----
(***************************************************************************)
(* LRUIPVRP: LRU replacement with an IPV-style insertion schedule          *)
(* (src/lru_ipv.hh, src/lru_ipv.cc).                                       *)
(*                                                                         *)
(* The engine state is the per-set age vectors (setAges), the insertion    *)
(* schedule (pv, insPos, quantum) and the replacement data records the     *)
(* host cache owns (data).  Vectors are C++ 0-based; here way w lives at   *)
(* index w+1 of a TLA+ sequence.                                           *)
(***************************************************************************)
EXTENDS Integers, Sequences, FiniteSets, TLC

\* ---------------------------------------------------------------- bounds
NumWays == 3        \* set associativity (p.numWays)
NumSets == 2        \* sets of the host cache
MaxResets == 4      \* fills made by the unconstrained host
MaxLen == 3         \* longest vector given to a rank rule on its own
MaxVal == 3         \* largest value in such a vector

Sets == 0 .. (NumSets - 1)
Ways == 0 .. (NumWays - 1)
\* A cache slot (ReplaceableEntry) is named by its identity <<set, way>>.
NoEntry == <<-1, -1>>
\* The slots the host drives: every way of set 0, or one way of each set.
FullSet == {0} \X Ways
Across == Sets \X {0}
Shapes == {FullSet, Across}
\* A host whose sets have one way more than numWays: way 0 and the extra way.
HostWays == 0 .. NumWays
Wide == {<<0, 0>>, <<0, NumWays>>}

\* Construction parameters tried (p.quantum, p.mru_pct).
Params ==
  { [quantum |-> 0, mru_pct |-> 100],
    [quantum |-> 2, mru_pct |-> 50],
    [quantum |-> 3, mru_pct |-> 70],
    [quantum |-> 2, mru_pct |-> 150],
    [quantum |-> 3, mru_pct |-> -40] }

VARIABLES
  data,       \* IPVReplData of every slot the host created: [age, valid, set, way]
  setAges,    \* set id -> age vector; <<>> when the map has no such key
  pv,         \* IPV schedule, 1 = insert MRU, 0 = insert near LRU
  insPos,     \* cursor into pv
  quantum,    \* schedule period (after the clamp)
  mruPct,     \* configured percentage
  candidates, \* ways passed to the getVictim call just made (<<>> after any other call)
  victim,     \* entry that call returned (NoEntry after any other call)
  hist,       \* rule applied by each counted reset (TRUE = MRU), oldest first
  pending,    \* protocol host: victim awaiting its fill, or NoEntry
  lruOrder,   \* protocol host: per set, ways by last touch/reset, oldest first
  selected,   \* per set: a getVictim pass ran on it since the last reset on it
  fn,         \* a rank rule applied on its own: [op, v, way, out]
  fault       \* "none", or how the process ended: "panic", "outOfBounds"

vars == <<data, setAges, pv, insPos, quantum, mruPct, candidates, victim, hist,
          pending, lruOrder, selected, fn, fault>>
host == <<pending, lruOrder, selected>>
Slots == DOMAIN data

\* ---------------------------------------------------------- arithmetic
Max2(a, b) == IF a >= b THEN a ELSE b
Min2(a, b) == IF a <= b THEN a ELSE b
\* C++ integer division truncates toward zero.
CDiv(a, b) == IF a >= 0 THEN a \div b ELSE -((-a) \div b)

\* ------------------------------------------------------ small utilities
Identity(n) == [i \in 1 .. n |-> i - 1]

ensureSet(v) == IF Len(v) < NumWays THEN Identity(NumWays) ELSE v

\* Position (0-based) of index i in the stable sort of the indices by value:
\* the indices that compare lower, and the equal ones that come earlier.
StableRank(v, i) ==
  Cardinality({ j \in 1 .. Len(v) : v[j] < v[i] \/ (v[j] = v[i] /\ j < i) })

\* Mutant: equal values are ranked by descending index.
normalize_TiesReversed(v) ==
  [i \in 1 .. Len(v) |->
     Cardinality({ j \in 1 .. Len(v) : v[j] < v[i] \/ (v[j] = v[i] /\ j > i) })]

\* Mutant: a relabelling that ignores the index order of equal values.
normalize_Unstable(v) ==
  [i \in 1 .. Len(v) |-> Cardinality({ j \in 1 .. Len(v) : v[j] < v[i] })]

normalize(v) == [i \in 1 .. Len(v) |-> StableRank(v, i)]

RECURSIVE MaxFrom(_, _, _)
MaxFrom(v, i, m) == IF i > Len(v) THEN m ELSE MaxFrom(v, i + 1, Max2(m, v[i]))

currentMRU(v) == MaxFrom(v, 1, 0)

\* Mutant: the target is lifted without closing the gap below it.
promoteToMRU_NoShift(v, way) ==
  [i \in 1 .. Len(v) |-> IF i = way + 1 THEN currentMRU(v) ELSE v[i]]

promoteToMRU(v, way) ==
  LET old == v[way + 1]
      mru == currentMRU(v)
  IN  [i \in 1 .. Len(v) |->
         IF i = way + 1 THEN mru
         ELSE IF v[i] > old THEN v[i] - 1 ELSE v[i]]

\* Mutant: the target drops to 0 and the other ways are not bumped.
insertNearLRU_NoBump(v, way) ==
  [i \in 1 .. Len(v) |-> IF i = way + 1 THEN 0 ELSE v[i]]

insertNearLRU(v, way) ==
  [i \in 1 .. Len(v) |-> IF i = way + 1 THEN 0 ELSE v[i] + 1]

\* ------------------------------------------------------- construction
ClampQuantum(q) == Max2(1, q)

\* Mutant: the percentage is rounded up instead of down.
mru_count_RoundUp(q, pct) == Max2(0, Min2(q, CDiv(q * pct + 99, 100)))

mru_count(q, pct) == Max2(0, Min2(q, CDiv(q * pct, 100)))

BuildPv(q, pct) == [i \in 1 .. q |-> IF i - 1 < mru_count(q, pct) THEN 1 ELSE 0]

instantiateEntry == [age |-> 0, valid |-> FALSE, set |-> 0, way |-> 0]

NoFn == [op |-> "off", v |-> <<>>, way |-> 0, out |-> <<>>]

Construct(p, slots) ==
  /\ quantum = ClampQuantum(p.quantum)
  /\ mruPct = p.mru_pct
  /\ pv = BuildPv(ClampQuantum(p.quantum), p.mru_pct)
  /\ insPos = 0
  /\ setAges = [s \in Sets |-> <<>>]
  /\ data = [e \in slots |-> instantiateEntry]

Idle ==
  /\ candidates = <<>>
  /\ victim = NoEntry
  /\ hist = <<>>
  /\ pending = NoEntry
  /\ lruOrder = [s \in Sets |-> <<>>]
  /\ selected = [s \in Sets |-> FALSE]
  /\ fault = "none"

Init ==
  /\ \E p \in Params : \E slots \in Shapes : Construct(p, slots)
  /\ Idle
  /\ fn = NoFn

\* ---------------------------------------------------------- operations
\* Mutant: the coordinates are cleared with the rest of the record.
invalidate_ClearsCoordinates(e) ==
  /\ data' = [data EXCEPT ![e] = instantiateEntry]
  /\ UNCHANGED <<setAges, pv, insPos, quantum, mruPct>>

invalidate(e) ==
  /\ data' = [data EXCEPT ![e].valid = FALSE, ![e].age = 0]
  /\ UNCHANGED <<setAges, pv, insPos, quantum, mruPct>>

\* Mutant: the record keeps the rank its way held before the promotion.
touch_OldAge(e) ==
  LET set == data[e].set
      way == data[e].way
      old == ensureSet(setAges[set])
  IN  /\ setAges' = [setAges EXCEPT ![set] = promoteToMRU(old, way)]
      /\ data' = [data EXCEPT ![e].age = old[way + 1], ![e].valid = TRUE]
      /\ UNCHANGED <<pv, insPos, quantum, mruPct>>

touch(e) ==
  LET set == data[e].set
      way == data[e].way
      v == promoteToMRU(ensureSet(setAges[set]), way)
  IN  /\ setAges' = [setAges EXCEPT ![set] = v]
      /\ data' = [data EXCEPT ![e].age = v[way + 1], ![e].valid = TRUE]
      /\ UNCHANGED <<pv, insPos, quantum, mruPct>>

NextInsPos(pos) == (pos + 1) % quantum

\* Mutant: the schedule entry is read the wrong way round.
ResetAges_Swapped(v, way, insertMRU) ==
  IF insertMRU THEN insertNearLRU(v, way) ELSE promoteToMRU(v, way)

ResetAges(v, way, insertMRU) ==
  IF insertMRU THEN promoteToMRU(v, way) ELSE insertNearLRU(v, way)

\* Mutant: the rule is applied to the vector of set 0, whatever the record says.
reset_FirstSet(e) ==
  LET way == data[e].way
      insertMRU == (pv[insPos + 1] = 1)
      v == ResetAges(ensureSet(setAges[0]), way, insertMRU)
  IN  /\ insPos' = NextInsPos(insPos)
      /\ setAges' = [setAges EXCEPT ![0] = v]
      /\ data' = [data EXCEPT ![e].age = v[way + 1], ![e].valid = TRUE]
      /\ UNCHANGED <<pv, quantum, mruPct>>

reset(e) ==
  LET set == data[e].set
      way == data[e].way
      insertMRU == (pv[insPos + 1] = 1)
      v == ResetAges(ensureSet(setAges[set]), way, insertMRU)
  IN  /\ insPos' = NextInsPos(insPos)
      /\ setAges' = [setAges EXCEPT ![set] = v]
      /\ data' = [data EXCEPT ![e].age = v[way + 1], ![e].valid = TRUE]
      /\ UNCHANGED <<pv, quantum, mruPct>>

\* getVictim, first loop: stamp (set, way) into every candidate's record.
\* Mutant: every candidate is stamped with the way of the first candidate.
Stamp_FirstCandidate(d, set, cands) ==
  [e \in DOMAIN d |->
     IF e[1] = set /\ \E i \in 1 .. Len(cands) : cands[i] = e[2]
     THEN [d[e] EXCEPT !.set = e[1], !.way = cands[1], !.valid = TRUE]
     ELSE d[e]]

Stamp(d, set, cands) ==
  [e \in DOMAIN d |->
     IF e[1] = set /\ \E i \in 1 .. Len(cands) : cands[i] = e[2]
     THEN [d[e] EXCEPT !.set = e[1], !.way = e[2], !.valid = TRUE]
     ELSE d[e]]

\* getVictim, second loop: copy the candidates' stored ages into the vector.
RECURSIVE SyncAges(_, _, _, _, _)
SyncAges(v, d, set, cands, i) ==
  IF i > Len(cands) THEN v
  ELSE LET w == cands[i]
       IN  SyncAges(IF w >= 0 /\ w < NumWays
                    THEN [v EXCEPT ![w + 1] = d[<<set, w>>].age] ELSE v,
                    d, set, cands, i + 1)

\* getVictim, third loop: the candidate kept by the "<= min_age" scan.
\* Mutant: the scan compares with "<", keeping the first minimum.
LeqMin_Strict(age, min_age) == min_age = -1 \/ age < min_age

LeqMin(age, min_age) == min_age = -1 \/ age <= min_age

\* Mutant: the scan reads the ages held in the set's vector before the pass.
RECURSIVE ScanVictim_FromTable(_, _, _, _, _, _)
ScanVictim_FromTable(d, set, cands, i, min_age, best) ==
  IF i > Len(cands) THEN best
  ELSE LET a == ensureSet(setAges[set])[cands[i] + 1]
       IN  IF LeqMin(a, min_age)
           THEN ScanVictim_FromTable(d, set, cands, i + 1, a, cands[i])
           ELSE ScanVictim_FromTable(d, set, cands, i + 1, min_age, best)

RECURSIVE ScanVictim(_, _, _, _, _, _)
ScanVictim(d, set, cands, i, min_age, best) ==
  IF i > Len(cands) THEN best
  ELSE LET a == d[<<set, cands[i]>>].age
       IN  IF LeqMin(a, min_age)
           THEN ScanVictim(d, set, cands, i + 1, a, cands[i])
           ELSE ScanVictim(d, set, cands, i + 1, min_age, best)

\* min_age starts at the largest uint64, written -1 here.
ChooseVictim(d, set, cands) == ScanVictim(d, set, cands, 1, -1, cands[1])

\* Mutant: the pass leaves the vector as the sync loop made it.
VictimAges_NoNormalize(v, d, set, cands) == SyncAges(ensureSet(v), d, set, cands, 1)

VictimAges(v, d, set, cands) == normalize(SyncAges(ensureSet(v), d, set, cands, 1))

getVictim(set, cands) ==
  LET d == Stamp(data, set, cands)
  IN  /\ Len(cands) > 0
      /\ data' = d
      /\ setAges' = [setAges EXCEPT ![set] = VictimAges(setAges[set], d, set, cands)]
      /\ UNCHANGED <<pv, insPos, quantum, mruPct>>

\* Candidate lists: ways of one set the host drives, each once, in any order.
RECURSIVE SeqsOver(_, _)
SeqsOver(S, n) ==
  IF n = 0 THEN {<<>>}
  ELSE LET shorter == SeqsOver(S, n - 1)
       IN  shorter \cup
           { Append(q, w) : q \in { x \in shorter : Len(x) = n - 1 }, w \in S }

Distinct(q) == \A i, j \in 1 .. Len(q) : i # j => q[i] # q[j]
WaysOf(set) == { w \in HostWays : <<set, w>> \in Slots }
Candidates(set) ==
  { q \in SeqsOver(WaysOf(set), NumWays) : Len(q) > 0 /\ Distinct(q) }
AllWays == [i \in 1 .. NumWays |-> i - 1]
Range(q) == { q[i] : i \in 1 .. Len(q) }

\* ----------------------------------------------- the unconstrained host
Invalidate(e) ==
  /\ invalidate(e)
  /\ candidates' = <<>>
  /\ victim' = NoEntry
  /\ UNCHANGED <<hist, host, fn, fault>>

Touch(e) ==
  /\ touch(e)
  /\ candidates' = <<>>
  /\ victim' = NoEntry
  /\ UNCHANGED <<hist, host, fn, fault>>

Reset(e) ==
  /\ Len(hist) < MaxResets
  /\ reset(e)
  /\ hist' = Append(hist, pv[insPos + 1] = 1)
  /\ candidates' = <<>>
  /\ victim' = NoEntry
  /\ UNCHANGED <<host, fn, fault>>

GetVictim(set, cands) ==
  /\ getVictim(set, cands)
  /\ candidates' = cands
  /\ victim' = <<set, ChooseVictim(Stamp(data, set, cands), set, cands)>>
  /\ UNCHANGED <<hist, host, fn, fault>>

Next ==
  \/ \E e \in Slots : Invalidate(e)
  \/ \E e \in Slots : Touch(e)
  \/ \E e \in Slots : Reset(e)
  \/ \E s \in Sets : \E c \in Candidates(s) : GetVictim(s, c)

Spec == Init /\ [][Next]_vars

\* ------------------------------------------------- the protocol host
\* The host of one full set following the calling protocol: a miss is
\* getVictim over all the ways of the set, then reset on the entry returned;
\* a hit is touch on a slot that holds a line.
RECURSIVE Without(_, _)
Without(q, w) ==
  IF q = <<>> THEN <<>>
  ELSE IF Head(q) = w THEN Without(Tail(q), w)
  ELSE <<Head(q)>> \o Without(Tail(q), w)
MoveToMRU(order, w) == Append(Without(order, w), w)

ProtoInit ==
  /\ \E p \in Params : Construct(p, FullSet)
  /\ Idle
  /\ fn = NoFn

ProtoGetVictim(set) ==
  /\ pending = NoEntry
  /\ getVictim(set, AllWays)
  /\ candidates' = AllWays
  /\ victim' = <<set, ChooseVictim(Stamp(data, set, AllWays), set, AllWays)>>
  /\ pending' = <<set, ChooseVictim(Stamp(data, set, AllWays), set, AllWays)>>
  /\ UNCHANGED <<lruOrder, selected, hist, fn, fault>>

ProtoReset ==
  /\ pending # NoEntry
  /\ reset(pending)
  /\ lruOrder' = [lruOrder EXCEPT ![pending[1]] = MoveToMRU(@, pending[2])]
  /\ pending' = NoEntry
  /\ candidates' = <<>>
  /\ victim' = NoEntry
  /\ UNCHANGED <<selected, hist, fn, fault>>

ProtoTouch(e) ==
  /\ pending = NoEntry
  /\ e[2] \in Range(lruOrder[e[1]])
  /\ touch(e)
  /\ lruOrder' = [lruOrder EXCEPT ![e[1]] = MoveToMRU(@, e[2])]
  /\ candidates' = <<>>
  /\ victim' = NoEntry
  /\ UNCHANGED <<pending, selected, hist, fn, fault>>

ProtoNext ==
  \/ \E s \in Sets : WaysOf(s) = Ways /\ ProtoGetVictim(s)
  \/ ProtoReset
  \/ \E e \in Slots : ProtoTouch(e)

SpecProto == ProtoInit /\ [][ProtoNext]_vars

\* ------------------------------------- the host that selects before a fill
\* Any host whose every reset acting on a set follows a getVictim pass over
\* that set made since the previous reset on it; touches and invalidates
\* come in any number, at any point, and the passes take any candidate list.
SelectGetVictim(set, cands) ==
  /\ getVictim(set, cands)
  /\ candidates' = cands
  /\ victim' = <<set, ChooseVictim(Stamp(data, set, cands), set, cands)>>
  /\ selected' = [selected EXCEPT ![set] = TRUE]
  /\ UNCHANGED <<pending, lruOrder, hist, fn, fault>>

SelectReset(e) ==
  /\ selected[data[e].set]
  /\ reset(e)
  /\ selected' = [selected EXCEPT ![data[e].set] = FALSE]
  /\ candidates' = <<>>
  /\ victim' = NoEntry
  /\ UNCHANGED <<pending, lruOrder, hist, fn, fault>>

SelectNext ==
  \/ \E s \in Sets : \E c \in Candidates(s) : SelectGetVictim(s, c)
  \/ \E e \in Slots : SelectReset(e)
  \/ \E e \in Slots : Touch(e)
  \/ \E e \in Slots : Invalidate(e)

SpecSelect == Init /\ [][SelectNext]_vars

\* ------------------------------------------------- the calls that fail
Running == fault = "none"

\* Mutant: the set's vector is created before the empty list is noticed.
panicEmpty_AfterEnsure ==
  /\ fault' = "panic"
  /\ setAges' = [setAges EXCEPT ![0] = ensureSet(@)]
  /\ UNCHANGED <<data, pv, insPos, quantum, mruPct>>

\* getVictim on an empty list: panic_if is the first statement.
panicEmpty ==
  /\ fault' = "panic"
  /\ UNCHANGED <<data, setAges, pv, insPos, quantum, mruPct>>

GetVictimEmpty ==
  /\ Running
  /\ panicEmpty
  /\ candidates' = <<>>
  /\ victim' = NoEntry
  /\ UNCHANGED <<hist, host, fn>>

FatalNext ==
  \/ \E e \in Slots : Running /\ Invalidate(e)
  \/ \E e \in Slots : Running /\ Touch(e)
  \/ \E e \in Slots : Running /\ Reset(e)
  \/ \E s \in Sets : \E c \in Candidates(s) : Running /\ GetVictim(s, c)
  \/ GetVictimEmpty

SpecFatal == Init /\ [][FatalNext]_vars

\* v[way] in promoteToMRU / insertNearLRU is inside the vector.
InRange(way) == way >= 0 /\ way < NumWays

\* v[way] outside the vector is undefined behaviour: the process dies, or it
\* goes on with whatever the read found as the record's age.
Garbage == 0 .. NumWays
outOfBounds(e, cursor) ==
  /\ fault' = "outOfBounds"
  /\ \/ data' = data
     \/ \E g \in Garbage : data' = [data EXCEPT ![e].age = g, ![e].valid = TRUE]
  /\ insPos' = cursor
  /\ UNCHANGED <<setAges, pv, quantum, mruPct>>

WideTouch(e) ==
  /\ Running
  /\ IF InRange(data[e].way) THEN Touch(e)
     ELSE /\ outOfBounds(e, insPos)
          /\ candidates' = <<>>
          /\ victim' = NoEntry
          /\ UNCHANGED <<hist, host, fn>>

WideReset(e) ==
  /\ Running
  /\ IF InRange(data[e].way) THEN Reset(e)
     ELSE /\ outOfBounds(e, NextInsPos(insPos))
          /\ candidates' = <<>>
          /\ victim' = NoEntry
          /\ UNCHANGED <<hist, host, fn>>

WideInit ==
  /\ \E p \in Params : Construct(p, Wide)
  /\ Idle
  /\ fn = NoFn

WideNext ==
  \/ \E e \in Slots : Running /\ Invalidate(e)
  \/ \E e \in Slots : WideTouch(e)
  \/ \E e \in Slots : WideReset(e)
  \/ \E s \in Sets : \E c \in Candidates(s) : Running /\ GetVictim(s, c)

SpecWide == WideInit /\ [][WideNext]_vars

\* ------------------------------------------- the rank rules on their own
\* Vectors of 1..MaxLen values in 0..MaxVal, and a way index into them.
Vectors == { q \in SeqsOver(0 .. MaxVal, MaxLen) : Len(q) > 0 }

FnInit ==
  /\ Construct([quantum |-> 2, mru_pct |-> 50], FullSet)
  /\ Idle
  /\ \E v \in Vectors : \E w \in 0 .. (Len(v) - 1) :
       fn = [op |-> "none", v |-> v, way |-> w, out |-> <<>>]

FnApply(op, out) ==
  /\ fn.op = "none"
  /\ fn' = [fn EXCEPT !.op = op, !.out = out]
  /\ UNCHANGED <<data, setAges, pv, insPos, quantum, mruPct, candidates, victim,
                 hist, host, fault>>

FnPromoteToMRU == FnApply("promoteToMRU", promoteToMRU(fn.v, fn.way))
FnInsertNearLRU == FnApply("insertNearLRU", insertNearLRU(fn.v, fn.way))
FnNormalize == FnApply("normalize", normalize(fn.v))

FnNext == FnPromoteToMRU \/ FnInsertNearLRU \/ FnNormalize

SpecFn == FnInit /\ [][FnNext]_vars

\* ------------------------------------------------------------- properties
\* v holds each of 0 .. n-1 exactly once and nothing else.
IsDensePerm(v, n) ==
  /\ Len(v) = n
  /\ \A k \in 0 .. (n - 1) : Cardinality({ i \in 1 .. Len(v) : v[i] = k }) = 1

Stamped(e) == data[e].set = e[1] /\ data[e].way = e[2]
AgeOf(set, way) == data[<<set, way>>].age

\* C1: right after getVictim returns for a set, that set's age vector has
\* exactly numWays entries holding each of 0 .. numWays-1 once.
C1_DenseAfterGetVictim ==
  victim # NoEntry => IsDensePerm(setAges[victim[1]], NumWays)

\* C1 witness: a pass over only some of the ways, whose candidates' stored
\* ages held a duplicate and a value >= numWays, left a dense vector.
C1_Witness ==
  /\ victim # NoEntry
  /\ Len(candidates) < NumWays
  /\ \E i, j \in 1 .. Len(candidates) :
       /\ i # j
       /\ AgeOf(victim[1], candidates[i]) = AgeOf(victim[1], candidates[j])
  /\ \E i \in 1 .. Len(candidates) : AgeOf(victim[1], candidates[i]) >= NumWays
  /\ IsDensePerm(setAges[victim[1]], NumWays)

\* C2: getVictim returns a candidate whose stored age (as it was at the call)
\* is <= every candidate's, and of the candidates sharing that minimum it is
\* the last in the list.
C2_VictimIsLastMinimum ==
  [][victim' # NoEntry =>
       LET s == victim'[1]
           c == candidates'
       IN  \E k \in 1 .. Len(c) :
             /\ c[k] = victim'[2]
             /\ \A i \in 1 .. Len(c) : AgeOf(s, c[k]) <= AgeOf(s, c[i])
             /\ \A i \in 1 .. Len(c) : AgeOf(s, c[i]) = AgeOf(s, c[k]) => i <= k]_vars

\* C2 witness: three candidates, the first two tied at the minimum age, the
\* second of them returned.
C2_Witness ==
  /\ victim # NoEntry
  /\ Len(candidates) = 3
  /\ victim[2] = candidates[2]
  /\ AgeOf(victim[1], candidates[1]) = AgeOf(victim[1], candidates[2])
  /\ AgeOf(victim[1], candidates[3]) > AgeOf(victim[1], candidates[2])

\* C4: on a dense permutation of 0 .. n-1, promoteToMRU(v, w) yields a dense
\* permutation in which w holds n-1, strictly above every other way; each
\* other way that was above w's old value drops by one and each one below it
\* is unchanged.
C4_PromoteShape ==
  (fn.op = "promoteToMRU" /\ IsDensePerm(fn.v, Len(fn.v))) =>
    LET n == Len(fn.v)
        t == fn.way + 1
    IN  /\ IsDensePerm(fn.out, n)
        /\ fn.out[t] = n - 1
        /\ \A i \in (1 .. n) \ {t} :
             /\ fn.out[i] < fn.out[t]
             /\ fn.v[i] > fn.v[t] => fn.out[i] = fn.v[i] - 1
             /\ fn.v[i] < fn.v[t] => fn.out[i] = fn.v[i]

\* C4 witness: the way promoted held the middle of three ranks, so one way
\* shifted down and one stayed.
C4_Witness ==
  /\ fn.op = "promoteToMRU"
  /\ IsDensePerm(fn.v, 3)
  /\ fn.v[fn.way + 1] = 1
  /\ fn.out[fn.way + 1] = 2

\* C5: on a dense permutation of 0 .. n-1, insertNearLRU(v, w) yields a dense
\* permutation of 0 .. n-1 in which w holds 0.
C5_InsertNearLRUShape ==
  (fn.op = "insertNearLRU" /\ IsDensePerm(fn.v, Len(fn.v))) =>
    /\ IsDensePerm(fn.out, Len(fn.v))
    /\ fn.out[fn.way + 1] = 0

\* The configured parameters of this run (mru_pct identifies them in Params).
ParamsUsed == CHOOSE p \in Params : p.mru_pct = mruPct
ClaimedQuantum == IF ParamsUsed.quantum < 1 THEN 1 ELSE ParamsUsed.quantum
ClaimedMruCount ==
  LET f == (ClaimedQuantum * mruPct) \div 100
  IN  IF f < 0 THEN 0 ELSE IF f > ClaimedQuantum THEN ClaimedQuantum ELSE f
TrueCount(h, from, n) == Cardinality({ k \in from .. (from + n - 1) : h[k] })

\* C6: the k-th reset since construction (k = 0, 1, ...), whatever set it
\* targets and whatever calls come between, is an MRU insert iff
\* (k mod quantum) < mru_count; the cursor is k mod quantum; every window of
\* quantum consecutive resets holds exactly mru_count MRU inserts.
C6_SchedulePeriodicity ==
  /\ quantum = ClaimedQuantum
  /\ insPos = Len(hist) % ClaimedQuantum
  /\ \A k \in 1 .. Len(hist) :
       hist[k] <=> (((k - 1) % ClaimedQuantum) < ClaimedMruCount)
  /\ \A from \in 1 .. (Len(hist) - ClaimedQuantum + 1) :
       TrueCount(hist, from, ClaimedQuantum) = ClaimedMruCount

\* C6 witness: a period of three with two MRU inserts, resets on both sets,
\* more than one full period consumed.
C6_Witness ==
  /\ quantum = 3
  /\ Len(hist) = 4
  /\ hist = <<TRUE, TRUE, FALSE, TRUE>>
  /\ \A s \in Sets : setAges[s] # <<>>
  /\ \E e \in Slots : e[1] = 1 /\ Stamped(e) /\ data[e].valid

\* C7: getVictim changes no record's age and no record's valid.
C7_GetVictimKeepsAgeAndValid ==
  [][victim' # NoEntry =>
       \A e \in Slots : /\ data'[e].age = data[e].age
                        /\ data'[e].valid = data[e].valid]_vars

\* C9: when the candidates are all numWays ways of a set, the victim's way
\* holds 0 in the set's age vector as getVictim leaves it.
C9_VictimHoldsRankZero ==
  (victim # NoEntry /\ Range(candidates) = Ways) =>
    setAges[victim[1]][victim[2] + 1] = 0

\* C10: reset on a stamped record leaves it valid with age equal to the value
\* at its way in its set's vector, which is the vector's maximum after an MRU
\* schedule entry and 0 after a near-LRU one; every other record keeps its age
\* and valid.
C10_ResetEffect ==
  [][\A e \in Slots : (Stamped(e) /\ Reset(e)) =>
       LET v == setAges'[e[1]]
       IN  /\ data'[e].valid
           /\ data'[e].age = v[e[2] + 1]
           /\ pv[insPos + 1] = 1 => data'[e].age = currentMRU(v)
           /\ pv[insPos + 1] # 1 => data'[e].age = 0
           /\ \A o \in Slots \ {e} : /\ data'[o].age = data[o].age
                                     /\ data'[o].valid = data[o].valid]_vars

\* C10 witness: both kinds of schedule entry have been consumed by resets;
\* one stamped record sits at its vector's maximum, another at 0.
C10_Witness ==
  /\ \E k \in 1 .. Len(hist) : hist[k]
  /\ \E k \in 1 .. Len(hist) : ~hist[k]
  /\ victim = NoEntry
  /\ \E a, b \in Slots :
       /\ a # b /\ Stamped(a) /\ Stamped(b) /\ a[1] = b[1]
       /\ data[a].valid /\ data[b].valid
       /\ data[a].age = currentMRU(setAges[a[1]])
       /\ data[a].age = setAges[a[1]][a[2] + 1]
       /\ data[a].age >= NumWays
       /\ data[b].age = 0
       /\ setAges[b[1]][b[2] + 1] = 0

\* C3: with every fill an MRU insert (mruPct = 100) and the host following the
\* protocol, getVictim returns the way whose last touch or reset is the oldest
\* of the set's ways (stated once every way of the set has been filled).
C3_VictimIsTrueLRU ==
  (mruPct = 100 /\ victim # NoEntry /\ Len(lruOrder[victim[1]]) = NumWays) =>
    victim[2] = Head(lruOrder[victim[1]])

\* C8: every record that is stamped and valid has age equal to the value at
\* its (set, way) in the age table.
C8_AgeMirrorsTable ==
  \A e \in Slots :
    (Stamped(e) /\ data[e].valid) =>
      /\ Len(setAges[e[1]]) = NumWays
      /\ data[e].age = setAges[e[1]][e[2] + 1]

\* Largest value of v, and whether way w alone holds it.
StrictMaxAt(v, w) == \A i \in 1 .. Len(v) : i # w + 1 => v[i] < v[w + 1]
OthersKeepAgeAndValid(e) ==
  \A o \in Slots \ {e} : /\ data'[o].age = data[o].age
                         /\ data'[o].valid = data[o].valid

\* C11: touch on a stamped record leaves it valid with age equal to the table
\* value at its way, which is the maximum of its set's vector and strictly
\* above every other way's value; no other record's age or valid changes, the
\* cursor stays, and touching the record again would change nothing.
C11_TouchEffect ==
  [][\A e \in Slots : (Stamped(e) /\ Touch(e)) =>
       LET v == setAges'[e[1]]
       IN  /\ data'[e].valid
           /\ data'[e].age = v[e[2] + 1]
           /\ data'[e].age = currentMRU(v)
           /\ StrictMaxAt(v, e[2])
           /\ OthersKeepAgeAndValid(e)
           /\ insPos' = insPos
           /\ promoteToMRU(ensureSet(v), e[2]) = v
           /\ promoteToMRU(ensureSet(v), e[2])[e[2] + 1] = data'[e].age]_vars

\* C11 witness: with no reset made, a stamped record of a way other than the
\* last sits alone at the top of its set's vector, so a touch put it there.
C11_Witness ==
  /\ hist = <<>>
  /\ victim = NoEntry
  /\ \E e \in Slots :
       /\ e[2] = 1 /\ Stamped(e) /\ data[e].valid
       /\ data[e].age = NumWays - 1
       /\ setAges[e[1]][e[2] + 1] = NumWays - 1
       /\ StrictMaxAt(setAges[e[1]], e[2])

\* C12: invalidate sets the record's valid to false and its age to 0; its
\* coordinates, every age vector, the cursor, the schedule and every other
\* record are unchanged.
C12_InvalidateEffect ==
  [][\A e \in Slots : Invalidate(e) =>
       /\ data'[e] = [data[e] EXCEPT !.valid = FALSE, !.age = 0]
       /\ data'[e].set = data[e].set
       /\ data'[e].way = data[e].way
       /\ \A o \in Slots \ {e} : data'[o] = data[o]
       /\ setAges' = setAges
       /\ insPos' = insPos
       /\ pv' = pv]_vars

\* C12 witness: a record stamped by a selection pass is invalid again with
\* age 0, while its way's slot in the vector still holds a nonzero rank.
C12_Witness ==
  \E e \in Slots :
    /\ e[2] # 0 /\ Stamped(e)
    /\ ~data[e].valid
    /\ data[e].age = 0
    /\ setAges[e[1]][e[2] + 1] > 0

\* C13: getVictim on an empty candidate list fails fatally before any
\* mutation: no record, no age vector (none is created) and not the cursor
\* is changed by the failing call.
C13_EmptyListPanicsFirst ==
  [][GetVictimEmpty =>
       /\ fault' = "panic"
       /\ data' = data
       /\ setAges' = setAges
       /\ insPos' = insPos
       /\ pv' = pv]_vars

\* C13 witness: the call failed on an engine that had stamped records and a
\* vector for set 0 only; set 1 still has none.
C13_Witness ==
  /\ fault = "panic"
  /\ setAges[0] # <<>>
  /\ setAges[1] = <<>>
  /\ \E e \in Slots : data[e].valid /\ data[e].age > 0

\* C14: no touch, reset, invalidate or non-empty getVictim faults, whatever
\* set and way the host's candidates report: every index into an age vector
\* is within 0 .. numWays-1.
C14_NoOutOfBounds == fault # "outOfBounds"

\* C15: after getVictim every candidate's record carries the candidate's own
\* set and way; stamping the same candidates again changes no coordinate; the
\* records of the other slots keep their coordinates, and touch, reset and
\* invalidate change no coordinate at all (instantiateEntry zeroes them).
\* A getVictim step is the one that leaves a victim; it records its list.
Coordinates(d) == [e \in DOMAIN d |-> <<d[e].set, d[e].way>>]
C15_OnlyGetVictimStamps ==
  [][ IF victim' # NoEntry
      THEN LET s == victim'[1]
               c == candidates'
           IN  /\ \A i \in 1 .. Len(c) :
                    Coordinates(data')[<<s, c[i]>>] = <<s, c[i]>>
               /\ Coordinates(Stamp(data', s, c)) = Coordinates(data')
               /\ \A e \in Slots :
                    (e[1] # s \/ e[2] \notin Range(c)) =>
                      Coordinates(data')[e] = Coordinates(data)[e]
      ELSE Coordinates(data') = Coordinates(data)
    ]_vars

\* A pass over two candidates has stamped both while a third slot of the
\* set still holds the zeroed coordinates of instantiateEntry.
C15_Witness ==
  /\ victim # NoEntry
  /\ Len(candidates) = 2
  /\ \A i \in 1 .. Len(candidates) : Stamped(<<victim[1], candidates[i]>>)
  /\ \E i \in 1 .. Len(candidates) : candidates[i] # 0
  /\ \E e \in Slots : e[2] # 0 /\ data[e].way = 0 /\ data[e].set = 0

\* C16: the victim of getVictim is a function of the candidates' record ages
\* in list order alone (the last position holding the least age), whatever
\* the set's vector held before; and over a list covering every way, the
\* vector left behind is the one the pass would leave from any other prior
\* vector, the absent one included.  Stated on the state a pass leaves: the
\* pass changes no record age, so its records are those it started from.
RecordAges(d, set, cands) == [i \in 1 .. Len(cands) |-> d[<<set, cands[i]>>].age]
LastMinimum(ages) ==
  CHOOSE k \in 1 .. Len(ages) :
    \A i \in 1 .. Len(ages) : ages[i] > ages[k] \/ (ages[i] = ages[k] /\ i <= k)
PriorTables == {<<>>} \cup { v \in Vectors : Len(v) = NumWays }
C16_TableContentsIrrelevant ==
  victim # NoEntry =>
    LET s == victim[1]
        c == candidates
    IN  /\ victim[2] = c[LastMinimum(RecordAges(data, s, c))]
        /\ Range(c) = Ways =>
             \A v2 \in PriorTables :
               VictimAges(v2, Stamp(data, s, c), s, c) = setAges[s]

\* A pass over all the ways whose records hold a repeated age: the vector
\* before the pass, whose values are distinct, disagreed with the records.
C16_Witness ==
  /\ victim # NoEntry
  /\ Range(candidates) = Ways
  /\ hist # <<>>
  /\ \E w1, w2 \in Ways :
       /\ w1 # w2
       /\ AgeOf(victim[1], w1) = AgeOf(victim[1], w2)
       /\ AgeOf(victim[1], w1) > 0

\* C17: normalize(v) is a permutation of 0 .. n-1 that keeps the order of
\* the values of v and ranks equal values by ascending index, for vectors
\* with repeated values and values above n-1 alike; a vector that is already
\* a permutation of 0 .. n-1 comes back unchanged.
C17_NormalizeStableDense ==
  fn.op = "normalize" =>
    LET v == fn.v
        r == fn.out
        n == Len(v)
    IN  /\ IsDensePerm(r, n)
        /\ \A i, j \in 1 .. n :
             /\ v[i] < v[j] => r[i] < r[j]
             /\ (v[i] = v[j] /\ i < j) => r[i] < r[j]
        /\ IsDensePerm(v, n) => r = v

\* The input repeats a value that is also above n-1; the earlier of the two
\* ways takes the lower rank.
C17_Witness ==
  /\ fn.op = "normalize"
  /\ fn.v = <<3, 0, 3>>
  /\ fn.out = <<1, 0, 2>>

\* C18: between any two calls, every age vector that exists has exactly
\* numWays entries and no value twice; touch and reset may leave it with a
\* gap or a value of numWays, never with a duplicate.
C18_VectorsHaveDistinctValues ==
  \A s \in Sets :
    setAges[s] # <<>> =>
      /\ Len(setAges[s]) = NumWays
      /\ \A i, j \in 1 .. NumWays : i # j => setAges[s][i] # setAges[s][j]

\* A near-LRU reset has left a vector that is not a permutation of
\* 0 .. numWays-1: it holds the value numWays and misses a lower one.
C18_Witness ==
  /\ hist # <<>>
  /\ victim = NoEntry
  /\ \E s \in Sets :
       /\ Len(setAges[s]) = NumWays
       /\ NumWays \in Range(setAges[s])
       /\ \E g \in 0 .. (NumWays - 1) : g \notin Range(setAges[s])
       /\ \A e \in Slots : data[e].set = s => Stamped(e)

\* C19: while every reset on a set follows a getVictim pass over that set
\* made since the previous reset on it, no value of an age vector and no
\* record age exceeds numWays, whatever touches and invalidates come in
\* between.  Resets that follow one another with no pass between them have no
\* such bound: from any vector reached, each further near-LRU reset of one
\* way raises the largest value by one.
RECURSIVE NearLRUResets(_, _, _)
NearLRUResets(v, way, k) ==
  IF k = 0 THEN v ELSE NearLRUResets(insertNearLRU(v, way), way, k - 1)
C19_DriftBoundedByProtocol ==
  /\ \A s \in Sets : \A i \in 1 .. Len(setAges[s]) : setAges[s][i] <= NumWays
  /\ \A e \in Slots : data[e].age <= NumWays
  /\ \A s \in Sets : \A w \in Ways : \A k \in 1 .. MaxResets :
       setAges[s] # <<>> =>
         currentMRU(NearLRUResets(setAges[s], w, k + 1)) =
           currentMRU(NearLRUResets(setAges[s], w, k)) + 1

\* The bound is attained: after a pass and a near-LRU reset a vector holds
\* numWays, and a touch has copied that value into a record.
C19_Witness ==
  /\ \E s \in Sets : NumWays \in Range(setAges[s])
  /\ \E e \in Slots : Stamped(e) /\ data[e].valid /\ data[e].age = NumWays
  /\ \E s \in Sets : ~selected[s] /\ setAges[s] # <<>>

\* C20: touch and reset on a record of set S, and getVictim over S, leave
\* the vector of every other set as it was, present or absent; the cursor is
\* the one thing the sets share, and a step that moves it is a reset.
OtherSetsKeep(set) == \A s2 \in Sets \ {set} : setAges'[s2] = setAges[s2]
C20_OtherSetsUntouched ==
  [][ /\ \A e \in Slots : (Touch(e) \/ Reset(e)) => OtherSetsKeep(data[e].set)
      /\ victim' # NoEntry => OtherSetsKeep(victim'[1])
      /\ insPos' # insPos => \E e \in Slots : Reset(e)
      /\ pv' = pv /\ quantum' = quantum
    ]_vars

\* Resets and touches have worked on set 1 alone: its vector exists and its
\* record carries its rank, while set 0 still has no vector.
C20_Witness ==
  /\ hist # <<>>
  /\ victim = NoEntry
  /\ \E e \in Slots :
       /\ e[1] = 1
       /\ Stamped(e)
       /\ data[e].valid
       /\ Len(setAges[1]) = NumWays
       /\ data[e].age = setAges[1][e[2] + 1]
  /\ setAges[0] = <<>>

====
